---- MODULE Spec2Model ----
(***************************************************************************)
(* Model of internal/qerr/quic_error.go: the QuicError value, its five     *)
(* constructors, its accessors (Error, IsCryptoError, IsApplicationError,  *)
(* Temporary, Timeout) and the converter ToQuicError.                      *)
(*                                                                         *)
(* The error-code registry (type ErrorCode, its String, Message and        *)
(* isCryptoError methods and the InternalError constant) lives in another  *)
(* file of the package; it is modelled from its description.               *)
(***************************************************************************)
EXTENDS Integers, Sequences, FiniteSets, TLC

VARIABLES call, ret, out

vars == <<call, ret, out>>

(***************************************************************************)
(* Bounds and input domains                                                *)
(***************************************************************************)
\* error codes 0..MaxCode are drawn as inputs, together with ExtraCodes
MaxCode == 13
\* frame types 0..MaxFrameType are drawn as inputs
MaxFrameType == 8
\* largest value of the uint8 parameter tlsAlert
MaxUint8 == 255
\* base of the crypto band, the literal 0x100 of NewCryptoError
CryptoBase == 256

\* codes around and inside the crypto band, and 0x42
ExtraCodes == {66, 255, 256, 300, 511, 512}
Codes == (0..MaxCode) \cup ExtraCodes
\* a frame type of two hex digits besides the small ones
ExtraFrameTypes == {30}
FrameTypes == (0..MaxFrameType) \cup ExtraFrameTypes
Alerts == 0..MaxUint8
Messages == {"", "bye", "boom"}

(***************************************************************************)
(* fmt's %#x verb on an unsigned integer: "0x" and lowercase hex digits.   *)
(***************************************************************************)
HexDigit(n) ==
  <<"0", "1", "2", "3", "4", "5", "6", "7", "8", "9", "a", "b", "c", "d", "e", "f">>[n + 1]

RECURSIVE HexDigits(_)
HexDigits(n) ==
  IF n < 16 THEN HexDigit(n) ELSE HexDigits(n \div 16) \o HexDigit(n % 16)

SprintfHex(n) == "0x" \o HexDigits(n)

(***************************************************************************)
(* The error-code registry (type ErrorCode).                               *)
(***************************************************************************)
InternalError == 1

\* the registry's range check: is the code in the reserved crypto band
isCryptoError(c) == c >= CryptoBase /\ c < CryptoBase + 256

\* the registry's canonical short name of a code
String(c) ==
  CASE c = 0 -> "NO_ERROR"
    [] c = 1 -> "INTERNAL_ERROR"
    [] c = 2 -> "SERVER_BUSY"
    [] c = 3 -> "FLOW_CONTROL_ERROR"
    [] c = 4 -> "STREAM_LIMIT_ERROR"
    [] c = 5 -> "STREAM_STATE_ERROR"
    [] c = 6 -> "FINAL_SIZE_ERROR"
    [] c = 7 -> "FRAME_ENCODING_ERROR"
    [] c = 8 -> "TRANSPORT_PARAMETER_ERROR"
    [] c = 9 -> "VERSION_NEGOTIATION_ERROR"
    [] c = 10 -> "PROTOCOL_VIOLATION"
    [] c = 12 -> "INVALID_MIGRATION"
    [] c = 13 -> "CRYPTO_BUFFER_EXCEEDED"
    [] OTHER -> IF isCryptoError(c) THEN "CRYPTO_ERROR"
                ELSE "unknown error code: " \o SprintfHex(c)

\* the registry's canonical default message of a code ("" when it has none):
\* only the codes of the crypto band have one, the text of the alert
Message(c) ==
  IF isCryptoError(c) THEN "alert " \o SprintfHex(c - CryptoBase) ELSE ""

(***************************************************************************)
(* type QuicError and its constructors.  A field a composite literal does  *)
(* not name has Go's zero value.                                           *)
(***************************************************************************)
QuicError(code, frameType, message, timeout, app) ==
  [ErrorCode |-> code, FrameType |-> frameType, ErrorMessage |-> message,
   isTimeout |-> timeout, isApplicationError |-> app]

NewError(errorCode, errorMessage) ==
  QuicError(errorCode, 0, errorMessage, FALSE, FALSE)

NewErrorWithFrameType(errorCode, frameType, errorMessage) ==
  QuicError(errorCode, frameType, errorMessage, FALSE, FALSE)

NewTimeoutError(errorMessage) ==
  QuicError(0, 0, errorMessage, TRUE, FALSE)

\* variant: the alert is stored without the offset into the crypto band
NewCryptoError_NoOffset(tlsAlert, errorMessage) ==
  QuicError(tlsAlert, 0, errorMessage, FALSE, FALSE)

\* ErrorCode(tlsAlert) widens the uint8 before the addition
NewCryptoError(tlsAlert, errorMessage) ==
  QuicError(CryptoBase + tlsAlert, 0, errorMessage, FALSE, FALSE)

\* variant: the literal copied from NewTimeoutError keeps isTimeout
NewApplicationError_AlsoTimeout(errorCode, errorMessage) ==
  QuicError(errorCode, 0, errorMessage, TRUE, TRUE)

\* variant: the code is stored in the FrameType field as well
NewApplicationError_SetsFrameType(errorCode, errorMessage) ==
  QuicError(errorCode, errorCode, errorMessage, FALSE, TRUE)

NewApplicationError(errorCode, errorMessage) ==
  QuicError(errorCode, 0, errorMessage, FALSE, TRUE)

(***************************************************************************)
(* The methods of *QuicError.                                              *)
(***************************************************************************)
\* variant: a timeout is rendered from its message alone, without its code
Error_TimeoutIgnoresCode(e) ==
  IF e.isApplicationError
  THEN IF Len(e.ErrorMessage) = 0
       THEN "Application error " \o SprintfHex(e.ErrorCode)
       ELSE "Application error " \o SprintfHex(e.ErrorCode) \o ": " \o e.ErrorMessage
  ELSE IF e.isTimeout
  THEN e.ErrorMessage
  ELSE LET str0 == String(e.ErrorCode)
           str == IF e.FrameType # 0
                  THEN str0 \o " (frame type: " \o SprintfHex(e.FrameType) \o ")"
                  ELSE str0
           msg == IF Len(e.ErrorMessage) = 0 THEN Message(e.ErrorCode)
                  ELSE e.ErrorMessage
       IN IF Len(msg) = 0 THEN str ELSE str \o ": " \o msg

\* variant: the registry's default message wins over the stored message
Error_DefaultMessageFirst(e) ==
  IF e.isApplicationError
  THEN IF Len(e.ErrorMessage) = 0
       THEN "Application error " \o SprintfHex(e.ErrorCode)
       ELSE "Application error " \o SprintfHex(e.ErrorCode) \o ": " \o e.ErrorMessage
  ELSE LET str0 == String(e.ErrorCode)
           str == IF e.FrameType # 0
                  THEN str0 \o " (frame type: " \o SprintfHex(e.FrameType) \o ")"
                  ELSE str0
           msg == IF Len(Message(e.ErrorCode)) = 0 THEN e.ErrorMessage
                  ELSE Message(e.ErrorCode)
       IN IF Len(msg) = 0 THEN str ELSE str \o ": " \o msg

\* variant: the application branch is missing, every value is rendered
\* through the registry
Error_NoApplicationBranch(e) ==
  LET str0 == String(e.ErrorCode)
      str == IF e.FrameType # 0
             THEN str0 \o " (frame type: " \o SprintfHex(e.FrameType) \o ")"
             ELSE str0
      msg == IF Len(e.ErrorMessage) = 0 THEN Message(e.ErrorCode)
             ELSE e.ErrorMessage
  IN IF Len(msg) = 0 THEN str ELSE str \o ": " \o msg

Error(e) ==
  IF e.isApplicationError
  THEN IF Len(e.ErrorMessage) = 0
       THEN "Application error " \o SprintfHex(e.ErrorCode)
       ELSE "Application error " \o SprintfHex(e.ErrorCode) \o ": " \o e.ErrorMessage
  ELSE LET str0 == String(e.ErrorCode)
           str == IF e.FrameType # 0
                  THEN str0 \o " (frame type: " \o SprintfHex(e.FrameType) \o ")"
                  ELSE str0
           msg == IF Len(e.ErrorMessage) = 0 THEN Message(e.ErrorCode)
                  ELSE e.ErrorMessage
       IN IF Len(msg) = 0 THEN str ELSE str \o ": " \o msg

IsCryptoError(e) == isCryptoError(e.ErrorCode)

IsApplicationError(e) == e.isApplicationError

Temporary(e) == FALSE

Timeout(e) == e.isTimeout

(***************************************************************************)
(* Values of the interface type error handed to ToQuicError: the nil       *)
(* interface, a *QuicError, an ErrorCode, or an error of any other type,   *)
(* known by the string its Error method returns.                           *)
(***************************************************************************)
NilError == [type |-> "nil"]
QuicErrorValue(e) == [type |-> "*QuicError", v |-> e]
ErrorCodeValue(c) == [type |-> "ErrorCode", v |-> c]
ForeignError(d) == [type |-> "error", v |-> d]

\* outcome of a call: a returned *QuicError, or a run-time panic
Returned(e) == [kind |-> "QuicError", v |-> e]
Panic == [kind |-> "panic"]
NoReturn == [kind |-> "none"]

\* variant: a *QuicError is wrapped again from its code and message
ToQuicError_Rewraps(err) ==
  CASE err.type = "*QuicError" ->
         Returned(NewError(err.v.ErrorCode, err.v.ErrorMessage))
    [] err.type = "ErrorCode" -> Returned(NewError(err.v, ""))
    [] err.type = "nil" -> Panic
    [] OTHER -> Returned(NewError(InternalError, err.v))

\* variant: the case for ErrorCode is missing, a bare code falls through
\* to the internal error
ToQuicError_NoErrorCodeCase(err) ==
  CASE err.type = "*QuicError" -> Returned(err.v)
    [] err.type = "nil" -> Panic
    [] err.type = "ErrorCode" -> Returned(NewError(InternalError, String(err.v)))
    [] OTHER -> Returned(NewError(InternalError, err.v))

\* the type switch of ToQuicError; err.Error() on the nil interface is a
\* nil dereference
ToQuicError(err) ==
  CASE err.type = "*QuicError" -> Returned(err.v)
    [] err.type = "ErrorCode" -> Returned(NewError(err.v, ""))
    [] err.type = "nil" -> Panic
    [] OTHER -> Returned(NewError(InternalError, err.v))

(***************************************************************************)
(* State machine: call is the last call made with its arguments, ret its   *)
(* outcome, out the result of the last accessor called on ret.             *)
(***************************************************************************)
NoOut == [m |-> "none"]

Init ==
  /\ call = [op |-> "init"]
  /\ ret = NoReturn
  /\ out = NoOut

CallNewError ==
  \E c \in Codes, m \in Messages :
    /\ call' = [op |-> "NewError", errorCode |-> c, errorMessage |-> m]
    /\ ret' = Returned(NewError(c, m))
    /\ out' = NoOut

CallNewErrorWithFrameType ==
  \E c \in Codes, f \in FrameTypes, m \in Messages :
    /\ call' = [op |-> "NewErrorWithFrameType", errorCode |-> c,
                frameType |-> f, errorMessage |-> m]
    /\ ret' = Returned(NewErrorWithFrameType(c, f, m))
    /\ out' = NoOut

CallNewTimeoutError ==
  \E m \in Messages :
    /\ call' = [op |-> "NewTimeoutError", errorMessage |-> m]
    /\ ret' = Returned(NewTimeoutError(m))
    /\ out' = NoOut

CallNewCryptoError ==
  \E a \in Alerts, m \in Messages :
    /\ call' = [op |-> "NewCryptoError", tlsAlert |-> a, errorMessage |-> m]
    /\ ret' = Returned(NewCryptoError(a, m))
    /\ out' = NoOut

CallNewApplicationError ==
  \E c \in Codes, m \in Messages :
    /\ call' = [op |-> "NewApplicationError", errorCode |-> c, errorMessage |-> m]
    /\ ret' = Returned(NewApplicationError(c, m))
    /\ out' = NoOut

\* the errors a caller can hand to ToQuicError: nil, a bare code, a foreign
\* error, or the *QuicError an earlier call returned
ErrInputs ==
  {NilError}
    \cup {ErrorCodeValue(c) : c \in Codes}
    \cup {ForeignError(d) : d \in Messages}
    \cup (IF ret.kind = "QuicError" THEN {QuicErrorValue(ret.v)} ELSE {})

CallToQuicError ==
  \E err \in ErrInputs :
    /\ call' = [op |-> "ToQuicError", err |-> err]
    /\ ret' = ToQuicError(err)
    /\ out' = NoOut

CallError ==
  /\ ret.kind = "QuicError"
  /\ out' = [m |-> "Error", v |-> Error(ret.v)]
  /\ UNCHANGED <<call, ret>>

CallIsCryptoError ==
  /\ ret.kind = "QuicError"
  /\ out' = [m |-> "IsCryptoError", v |-> IsCryptoError(ret.v)]
  /\ UNCHANGED <<call, ret>>

CallIsApplicationError ==
  /\ ret.kind = "QuicError"
  /\ out' = [m |-> "IsApplicationError", v |-> IsApplicationError(ret.v)]
  /\ UNCHANGED <<call, ret>>

CallTemporary ==
  /\ ret.kind = "QuicError"
  /\ out' = [m |-> "Temporary", v |-> Temporary(ret.v)]
  /\ UNCHANGED <<call, ret>>

CallTimeout ==
  /\ ret.kind = "QuicError"
  /\ out' = [m |-> "Timeout", v |-> Timeout(ret.v)]
  /\ UNCHANGED <<call, ret>>

Next ==
  \/ CallNewError
  \/ CallNewErrorWithFrameType
  \/ CallNewTimeoutError
  \/ CallNewCryptoError
  \/ CallNewApplicationError
  \/ CallToQuicError
  \/ CallError
  \/ CallIsCryptoError
  \/ CallIsApplicationError
  \/ CallTemporary
  \/ CallTimeout

Spec == Init /\ [][Next]_vars

TypeOK ==
  /\ ret.kind \in {"none", "panic", "QuicError"}
  /\ ret.kind = "QuicError" =>
       /\ ret.v.ErrorCode \in Nat
       /\ ret.v.FrameType \in Nat
       /\ ret.v.isTimeout \in BOOLEAN
       /\ ret.v.isApplicationError \in BOOLEAN
  /\ out.m \in {"none", "Error", "IsCryptoError", "IsApplicationError",
                "Temporary", "Timeout"}

(***************************************************************************)
(* Properties                                                              *)
(***************************************************************************)
IsValue == ret.kind = "QuicError"

\* C1: no value returned by a constructor or by ToQuicError, after any
\* sequence of calls, has Timeout() and IsApplicationError() both true.
C1_NeverTimeoutAndApplication ==
  IsValue => ~(Timeout(ret.v) /\ IsApplicationError(ret.v))

\* a timeout error has gone through the converter
C1_Witness ==
  /\ call.op = "ToQuicError"
  /\ IsValue
  /\ call.err.type = "*QuicError"
  /\ Timeout(ret.v)

\* C2: IsCryptoError() is true exactly when the value is not an application
\* error and its code lies in the crypto band.
C2_IsCryptoErrorIffNonApplicationInBand ==
  out.m = "IsCryptoError" =>
    (out.v <=> (~ret.v.isApplicationError
                  /\ ret.v.ErrorCode >= 256 /\ ret.v.ErrorCode <= 511))

\* C3: ToQuicError returns an Error Value for every input, the nil error
\* included; it never panics.
C3_ToQuicErrorNeverFails ==
  call.op = "ToQuicError" => ret.kind = "QuicError"

\* C4: ToQuicError returns a *QuicError it is given unchanged in all five
\* fields, and converting the result of a conversion again gives that result.
C4_ConverterIdempotent ==
  call.op = "ToQuicError" =>
    /\ call.err.type = "*QuicError" =>
         /\ IsValue
         /\ ret.v.ErrorCode = call.err.v.ErrorCode
         /\ ret.v.FrameType = call.err.v.FrameType
         /\ ret.v.ErrorMessage = call.err.v.ErrorMessage
         /\ ret.v.isTimeout = call.err.v.isTimeout
         /\ ret.v.isApplicationError = call.err.v.isApplicationError
    /\ IsValue => ToQuicError(QuicErrorValue(ret.v)) = ret

\* a transport error with a frame type and a message has been converted
C4_Witness ==
  /\ call.op = "ToQuicError"
  /\ call.err.type = "*QuicError"
  /\ IsValue
  /\ ret.v.FrameType = 7
  /\ ret.v.ErrorMessage = "bye"

\* C5: NewCryptoError(a, message) has code 0x100 + a for every a in 0..255,
\* is a crypto error, is neither an application error nor a timeout, and has
\* frame type 0.
C5_CryptoErrorCode ==
  call.op = "NewCryptoError" =>
    /\ IsValue
    /\ ret.v.ErrorCode = 256 + call.tlsAlert
    /\ IsCryptoError(ret.v)
    /\ ~IsApplicationError(ret.v)
    /\ ~Timeout(ret.v)
    /\ ret.v.FrameType = 0
    /\ ret.v.ErrorMessage = call.errorMessage

\* the largest alert
C5_Witness ==
  /\ call.op = "NewCryptoError"
  /\ call.tlsAlert = 255
  /\ IsValue
  /\ ret.v.ErrorCode = 511
  /\ out.m = "IsCryptoError"
  /\ out.v = TRUE

\* C6 as stated: a timeout error has code 0 and its rendering does not
\* depend on the code: with any other code in its place Error() gives the
\* same string.
C6_TimeoutRenderingIgnoresCode ==
  (out.m = "Error" /\ call.op = "NewTimeoutError") =>
    /\ ret.v.ErrorCode = 0
    /\ \A c \in Codes : Error([ret.v EXCEPT !.ErrorCode = c]) = out.v

\* C6 as amended: a timeout error has code 0 and Error() renders it from the
\* registry's short name of code 0, followed by ": " and the message, or the
\* registry's default message of code 0, when that is not empty.
C6_TimeoutRenderedFromCodeZero ==
  call.op = "NewTimeoutError" =>
    /\ IsValue
    /\ ret.v.ErrorCode = 0
    /\ Timeout(ret.v)
    /\ out.m = "Error" =>
         LET m == IF call.errorMessage # "" THEN call.errorMessage
                  ELSE Message(0)
         IN out.v = String(0) \o (IF m # "" THEN ": " \o m ELSE "")

\* a timeout error with a message has been rendered
C6_Witness ==
  /\ call.op = "NewTimeoutError"
  /\ call.errorMessage = "boom"
  /\ out.m = "Error"
  /\ out.v = String(0) \o ": boom"

\* C7: application errors and timeout errors have frame type 0; NewError,
\* NewTimeoutError, NewCryptoError, NewApplicationError and the converter's
\* wrapping cases return frame type 0; NewErrorWithFrameType returns a
\* transport error with the frame type it was given; the converter returns
\* the frame type of the *QuicError it was given.
C7_FrameTypeOnlyFromNewErrorWithFrameType ==
  IsValue =>
    /\ ret.v.isApplicationError => ret.v.FrameType = 0
    /\ ret.v.isTimeout => ret.v.FrameType = 0
    /\ call.op \in {"NewError", "NewTimeoutError", "NewCryptoError",
                    "NewApplicationError"} => ret.v.FrameType = 0
    /\ (call.op = "ToQuicError" /\ call.err.type # "*QuicError") =>
         ret.v.FrameType = 0
    /\ (call.op = "ToQuicError" /\ call.err.type = "*QuicError") =>
         ret.v.FrameType = call.err.v.FrameType
    /\ call.op = "NewErrorWithFrameType" =>
         /\ ret.v.FrameType = call.frameType
         /\ ~ret.v.isApplicationError
         /\ ~ret.v.isTimeout

\* an application error whose code looks like a frame type
C7_Witness ==
  /\ call.op = "NewApplicationError"
  /\ call.errorCode = 7
  /\ IsValue
  /\ ret.v.isApplicationError
  /\ ret.v.FrameType = 0

\* C8: for a value that is not an application error, Error() is the short
\* name of the code, then " (frame type: 0x..)" iff the frame type is not 0,
\* then ": " and m iff m is not empty, m being the stored message or, when
\* that is empty, the registry's default message of the code.
C8_TransportRendering ==
  (out.m = "Error" /\ ~ret.v.isApplicationError) =>
    LET e == ret.v
        m == IF e.ErrorMessage # "" THEN e.ErrorMessage
             ELSE Message(e.ErrorCode)
    IN /\ out.v = String(e.ErrorCode)
                    \o (IF e.FrameType # 0
                        THEN " (frame type: " \o SprintfHex(e.FrameType) \o ")"
                        ELSE "")
                    \o (IF m # "" THEN ": " \o m ELSE "")
       /\ (e.ErrorCode = 7 /\ e.FrameType = 7 /\ e.ErrorMessage = "") =>
            out.v = "FRAME_ENCODING_ERROR (frame type: 0x7)"
       /\ (e.ErrorCode = 7 /\ e.FrameType = 30 /\ e.ErrorMessage = "bye") =>
            out.v = "FRAME_ENCODING_ERROR (frame type: 0x1e): bye"
       /\ (e.ErrorCode = 300 /\ e.FrameType = 7 /\ e.ErrorMessage = "") =>
            out.v = "CRYPTO_ERROR (frame type: 0x7): " \o Message(300)
       /\ (e.ErrorCode = 300 /\ e.FrameType = 0 /\ e.ErrorMessage = "boom") =>
            out.v = "CRYPTO_ERROR: boom"

\* a code with a default message, rendered with a stored message
C8_Witness ==
  /\ out.m = "Error"
  /\ ~ret.v.isApplicationError
  /\ ret.v.FrameType = 7
  /\ ret.v.ErrorMessage = "boom"
  /\ Message(ret.v.ErrorCode) # ""

\* C9: for an application error, Error() is "Application error 0x<hex code>",
\* followed by ": " and the message when the message is not empty; it does
\* not depend on the frame type nor on the registry.
C9_ApplicationRendering ==
  (out.m = "Error" /\ ret.v.isApplicationError) =>
    LET e == ret.v
    IN /\ out.v = "Application error 0x" \o HexDigits(e.ErrorCode)
                    \o (IF e.ErrorMessage # "" THEN ": " \o e.ErrorMessage
                        ELSE "")
       /\ (e.ErrorCode = 66 /\ e.ErrorMessage = "") =>
            out.v = "Application error 0x42"
       /\ (e.ErrorCode = 1 /\ e.ErrorMessage = "bye") =>
            out.v = "Application error 0x1: bye"
       /\ (e.ErrorCode = 511 /\ e.ErrorMessage = "") =>
            out.v = "Application error 0x1ff"
       /\ \A f \in FrameTypes : Error([e EXCEPT !.FrameType = f]) = out.v

\* the application error 0x42 without a message has been rendered
C9_Witness ==
  /\ out.m = "Error"
  /\ ret.v.isApplicationError
  /\ ret.v.ErrorCode = 66
  /\ ret.v.ErrorMessage = ""
  /\ out.v = "Application error 0x42"

\* C10: for a bare error code c, ToQuicError returns the transport error with
\* code c, frame type 0 and an empty message; for a foreign error with
\* description d it returns the transport error with the InternalError code,
\* frame type 0 and message d.
C10_ConverterWraps ==
  call.op = "ToQuicError" =>
    /\ call.err.type = "ErrorCode" =>
         ret = Returned([ErrorCode |-> call.err.v, FrameType |-> 0,
                         ErrorMessage |-> "", isTimeout |-> FALSE,
                         isApplicationError |-> FALSE])
    /\ call.err.type = "error" =>
         ret = Returned([ErrorCode |-> InternalError, FrameType |-> 0,
                         ErrorMessage |-> call.err.v, isTimeout |-> FALSE,
                         isApplicationError |-> FALSE])

\* the foreign error "boom" has been converted
C10_Witness ==
  /\ call.op = "ToQuicError"
  /\ call.err = ForeignError("boom")
  /\ IsValue
  /\ ret.v.ErrorMessage = "boom"
  /\ ret.v.ErrorCode = 1
====
